---- MODULE Spec2Model ----
(***************************************************************************)
(* Model of the vOCR front end: the BatchProcessor component (sequential   *)
(* per-file OCR loop, manual retry, ZIP export), the API key service with  *)
(* its client-side encryption, the upload queue of the page, the file      *)
(* validation, error classification and retry helper of the OCR client,    *)
(* and the page's single-file flow with its API key, cancel and reset.     *)
(*                                                                         *)
(* React state is modelled as variables; every asynchronous handler is cut *)
(* at its awaits, and each synchronous block between two awaits is one     *)
(* action (React 19 applies the state updates of one block in one render). *)
(***************************************************************************)
EXTENDS Integers, Sequences, FiniteSets, TLC

VARIABLES
    \* ---- BatchProcessor (src/components/batch-processor.tsx) ----
    files,          \* the files prop: sequence of [name, type, readable]
    results,        \* useState<FileResult[]>
    isProcessing,   \* useState(false)
    currentIndex,   \* useState(0)
    runs,           \* the invocations of processFiles / retryFailed in flight
    started,        \* how many invocations the user has started so far
    finished,       \* the invocation that returned in the step just taken
    zip,            \* the archive handed to saveAs by the step just taken
    toast           \* the last toast raised by the step just taken

batchVars == <<files, results, isProcessing, currentIndex, runs, started, finished, zip, toast>>

VARIABLES
    \* ---- API key service (src/lib/api-key-service.ts) and its table ----
    db,             \* the rows of user_api_keys
    calls,          \* the calls of saveApiKey, each at its await or returned
    answer          \* what the getApiKey or deleteApiKey call just made returned

keyVars == <<db, calls, answer>>

VARIABLES
    \* ---- Page and OCRUploader: the upload queue ----
    pageFiles,          \* Page: files (useState<File[]>)
    uploaderFiles,      \* OCRUploader: files (useState<File[]>)
    capturedFile,       \* Page: capturedFile
    showPreviewModal,   \* Page: showPreviewModal
    viewMode,           \* Page: viewMode
    pageToast           \* the toasts raised by the step just taken, in order

uploadVars == <<pageFiles, uploaderFiles, capturedFile, showPreviewModal, viewMode, pageToast>>

VARIABLES
    \* ---- validateFile, applied to one file at a time ----
    candidate,          \* the file handed to validateFile
    validation          \* what validateFile returned for it

validateVars == <<candidate, validation>>

VARIABLES
    \* ---- extractText's handling of an HTTP error response ----
    response,           \* the Response fetch resolved with
    ocrError            \* the OCRError handleErrorResponse made of it

clientVars == <<response, ocrError>>

VARIABLES
    \* ---- retryWithBackoff ----
    retry               \* one call of retryWithBackoff: arguments, position, history

retryVars == <<retry>>

VARIABLES
    \* ---- Page: API key and single-file processing ----
    pageApiKey,         \* Page: apiKey (useState<string | null>)
    showNoKeyDialog,    \* Page: showNoKeyDialog
    singleResult,       \* Page: singleResult
    singles,            \* the invocations of processSingleFile, each at its await
    requests,           \* the extractText calls the page has issued so far
    isLoadingKey,       \* Page: isLoadingKey
    abortController,    \* Page: abortController (0: null, else the invocation that made it)
    processingState     \* Page: processingState (<<>>: null)

pageVars ==
    <<pageApiKey, showNoKeyDialog, singleResult, singles, requests, isLoadingKey,
      abortController, processingState>>

vars == <<batchVars, keyVars, uploadVars, validateVars, clientVars, retryVars, pageVars>>

notBatch == <<keyVars, uploadVars, validateVars, clientVars, retryVars, pageVars>>
notKeys == <<batchVars, uploadVars, validateVars, clientVars, retryVars, pageVars>>
notUpload == <<batchVars, keyVars, validateVars, clientVars, retryVars, pageVars>>
notValidate == <<batchVars, keyVars, uploadVars, clientVars, retryVars, pageVars>>
notClient == <<batchVars, keyVars, uploadVars, validateVars, retryVars, pageVars>>
notRetry == <<batchVars, keyVars, uploadVars, validateVars, clientVars, pageVars>>
notPage == <<batchVars, keyVars, validateVars, clientVars, retryVars>>

(***************************************************************************)
(* Bounds                                                                  *)
(***************************************************************************)
MaxRuns == 3        \* clicks on Start Processing / Retry Failed in one behaviour
MaxCalls == 2       \* calls of saveApiKey in one behaviour
MaxDrop == 2        \* files in one drop or one pick
MaxQueued == 12     \* the camera is not used once the page holds this many files
MaxRetries == 4     \* the largest maxRetries handed to retryWithBackoff
MaxSingleRuns == 2  \* invocations of processSingleFile in one behaviour
MaxSelected == 2    \* files selected at once when single-file processing is followed
MaxPages == 2       \* pages of a PDF

(***************************************************************************)
(* Values                                                                  *)
(***************************************************************************)
Undefined == "undefined"
NoTokens == -1
NoArchive == [produced |-> FALSE, entries |-> <<>>]

\* File names are sequences of characters, so that the extension rewrite of
\* the ZIP export can be computed as the regular expression computes it.
NameScanPng == <<"s", ".", "p", "n", "g">>
NameScanPdf == <<"s", ".", "p", "d", "f">>
NameNotes == <<"n", "o", "t", "e">>
NameDocPdf == <<"d", ".", "p", "d", "f">>

\* readable: whether the browser can still read the file's bytes when
\* fileToBase64 asks for them (FileReader.onload) or not (FileReader.onerror).
BatchFile(n, t, rd) == [name |-> n, type |-> t, readable |-> rd]

\* The file sets the page can hand to the component (two or more files that
\* passed validateFile: only the MIME type is checked, never the name).
FileLists ==
    { <<BatchFile(NameScanPng, "image/png", TRUE),
        BatchFile(NameScanPdf, "application/pdf", TRUE)>>,
      <<BatchFile(NameNotes, "image/jpeg", TRUE),
        BatchFile(NameScanPng, "image/png", FALSE),
        BatchFile(NameDocPdf, "application/pdf", TRUE)>> }

BATCH_DELAY_MS == 500

MsgRateLimit == "Rate limit reached. Please wait 5 seconds."
MsgReadFailed == "Failed to read file"

\* What extractText can return: { error } or { data }, never both, never neither.
NoError == [type |-> "none", message |-> Undefined]
NoData == [present |-> FALSE, text |-> <<>>, tokensUsed |-> NoTokens]
\* The OCR service is deterministic per document: file i (0-based) yields the
\* text and token count of that document.
TextOf(i) == <<"text of file", i>>
TokensOf(i) == 7 + i
OCRResponse(i) == [present |-> TRUE, text |-> TextOf(i), tokensUsed |-> TokensOf(i)]

\* What the OCR endpoint answers to one request: the document's text, or a
\* rate-limit rejection.
Responses == {"ok", "rate_limit"}

\* extractText(base64 of file i, apiKey, type) under the endpoint's answer
extractText(i, resp) ==
    IF resp = "ok"
    THEN [data |-> OCRResponse(i), error |-> NoError]
    ELSE [data |-> NoData, error |-> [type |-> "rate_limit", message |-> MsgRateLimit]]

(***************************************************************************)
(* BatchProcessor: component state                                         *)
(***************************************************************************)
Runs == 1..MaxRuns

\* files.map((file) => ({ filename: file.name, file, status: "pending" }))
PendingResult(f) ==
    [filename |-> f.name, status |-> "pending", extractedText |-> <<>>,
     error |-> Undefined, tokensUsed |-> NoTokens]

\* atClick: the results the handler's closure saw when it was invoked
IdleRun ==
    [id |-> 0, kind |-> "none", pc |-> "idle", todo |-> <<>>, k |-> 0,
     updatedResults |-> <<>>, log |-> <<>>, atClick |-> <<>>]

Ev(what, i) == [ev |-> what, arg |-> i]

NoToast == <<"none">>

InitBatch ==
    /\ files \in FileLists
    /\ results = [j \in 1..Len(files) |-> PendingResult(files[j])]
    /\ isProcessing = FALSE
    /\ currentIndex = 0
    /\ runs = [r \in Runs |-> IdleRun]
    /\ started = 0
    /\ finished = IdleRun
    /\ zip = NoArchive
    /\ toast = NoToast

\* Derived render values
successCount == Cardinality({j \in 1..Len(results) : results[j].status = "success"})
errorCount == Cardinality({j \in 1..Len(results) : results[j].status = "error"})
allComplete == \A j \in 1..Len(results) : results[j].status \in {"success", "error"}

\* Which buttons the component renders
StartProcessingVisible == ~isProcessing /\ ~allComplete
DownloadAllVisible == allComplete /\ successCount > 0
RetryFailedVisible == allComplete /\ errorCount > 0

\* The r-th click of a behaviour starts invocation r.
IsNextSlot(r) == r = started + 1

\* The file index (0-based, as in the code) an invocation is working on
CurFile(run) == run.todo[run.k]

\* updatedResults[i] = { ...updatedResults[i], status: "processing" } and, in
\* retryFailed only, error: undefined
MarkProcessing(res, kind) ==
    IF kind = "retryFailed"
    THEN [res EXCEPT !.status = "processing", !.error = Undefined]
    ELSE [res EXCEPT !.status = "processing"]

\* The branch on extractText's return value, with the error branch lost
ApplyReturnDropsError(res, ret) ==
    IF ret.data.present
    THEN [res EXCEPT !.status = "success", !.extractedText = ret.data.text,
                     !.tokensUsed = ret.data.tokensUsed]
    ELSE res

\* The branch on extractText's return value
ApplyReturn(res, ret) ==
    IF ret.error.type # "none"
    THEN [res EXCEPT !.status = "error", !.error = ret.error.message]
    ELSE IF ret.data.present
         THEN [res EXCEPT !.status = "success", !.extractedText = ret.data.text,
                          !.tokensUsed = ret.data.tokensUsed]
         ELSE res

\* The catch block
ApplyException(res, msg) == [res EXCEPT !.status = "error", !.error = msg]

\* The delay taken after every file, the last one included
DelayAfterEveryFile(kind, i, n) == TRUE

\* if (i < files.length - 1) await delay   (processFiles)
\* await delay                              (retryFailed, after every file)
DelayAfter(kind, i, n) ==
    IF kind = "processFiles" THEN i < n - 1 ELSE TRUE

\* The toast that ends an invocation
FinalToast(kind, upd) ==
    IF kind = "retryFailed" THEN <<"success", "Retry completed">>
    ELSE LET sc == Cardinality({j \in 1..Len(upd) : upd[j].status = "success"})
         IN IF sc = Len(files)
            THEN <<"success", "All files processed successfully", Len(files)>>
            ELSE <<"info", "Completed", sc, Len(files) - sc>>

\* A loop that ends at the first file that went to error
MoreFilesUnlessError(run, upd) ==
    /\ run.k < Len(run.todo)
    /\ upd[CurFile(run) + 1].status # "error"

\* The loop test after the increment: i < files.length in processFiles, the
\* next element of failedIndices in retryFailed
MoreFiles(run, upd) == run.k < Len(run.todo)

\* Loop increment and loop test, followed either by the first synchronous
\* block of the next iteration (up to the await of fileToBase64) or by the
\* code after the loop.  upd is the invocation's updatedResults, res the
\* component's results as the block found or already set them.
Advance(r, upd, res, lg, t) ==
    LET run == runs[r] IN
    IF MoreFiles(run, upd)
    THEN LET i == run.todo[run.k + 1]
             upd2 == [upd EXCEPT ![i + 1] = MarkProcessing(@, run.kind)]
         IN /\ currentIndex' = i
            /\ results' = upd2
            /\ toast' = t
            /\ runs' = [runs EXCEPT ![r] =
                          [run EXCEPT !.k = @ + 1, !.pc = "fileToBase64",
                                      !.updatedResults = upd2,
                                      !.log = lg \o <<Ev("processing", i)>>]]
            /\ finished' = IdleRun
            /\ UNCHANGED isProcessing
    ELSE /\ isProcessing' = FALSE
         /\ currentIndex' = IF run.kind = "processFiles" THEN Len(files) ELSE currentIndex
         /\ results' = res
         /\ toast' = FinalToast(run.kind, upd)
         /\ runs' = [runs EXCEPT ![r] = IdleRun]
         /\ finished' = [run EXCEPT !.pc = "done", !.updatedResults = upd, !.log = lg]

\* The end of an iteration: updatedResults[i] gets its outcome,
\* setResults([...updatedResults]), then the delay or the next step.
Settle(r, newRes, t) ==
    LET run == runs[r]
        i == CurFile(run)
        upd == [run.updatedResults EXCEPT ![i + 1] = newRes]
        lg == run.log \o <<Ev("settled", i)>>
    IN IF DelayAfter(run.kind, i, Len(files))
       THEN /\ results' = upd
            /\ toast' = t
            /\ runs' = [runs EXCEPT ![r] =
                          [run EXCEPT !.pc = "delay", !.updatedResults = upd, !.log = lg]]
            /\ finished' = IdleRun
            /\ UNCHANGED <<isProcessing, currentIndex>>
       ELSE Advance(r, upd, upd, lg, t)

(***************************************************************************)
(* BatchProcessor: handlers                                                *)
(***************************************************************************)
\* A loop that visits the first file twice
ProcessOrderRepeatsFirst(n) == <<0>> \o [j \in 1..n |-> j - 1]

\* for (let i = 0; i < files.length; i++): the indices in the order visited
ProcessOrder(n) == [j \in 1..n |-> j - 1]

\* Click on Start Processing: processFiles up to its first await
processFiles(r) ==
    /\ UNCHANGED notBatch
    /\ StartProcessingVisible
    /\ IsNextSlot(r)
    /\ LET order == ProcessOrder(Len(files))
           i == order[1]
           upd == [results EXCEPT ![i + 1] = MarkProcessing(@, "processFiles")]
       IN /\ isProcessing' = TRUE
          /\ currentIndex' = i
          /\ results' = upd
          /\ runs' = [runs EXCEPT ![r] =
                        [id |-> r, kind |-> "processFiles", pc |-> "fileToBase64",
                         todo |-> order, k |-> 1, updatedResults |-> upd,
                         log |-> <<Ev("processing", i)>>, atClick |-> results]]
    /\ started' = r
    /\ finished' = IdleRun /\ zip' = NoArchive /\ toast' = NoToast
    /\ UNCHANGED files

\* results.map((r, i) => (r.status === "error" ? i : -1)).filter((i) => i !== -1)
RECURSIVE FailedFrom(_, _)
FailedFrom(res, j) ==
    IF j > Len(res) THEN <<>>
    ELSE (IF res[j].status = "error" THEN <<j - 1>> ELSE <<>>) \o FailedFrom(res, j + 1)

\* Every index, whatever the status
failedIndicesAll(res) == [j \in 1..Len(res) |-> j - 1]

failedIndices(res) == FailedFrom(res, 1)

\* retryFailed up to its first await
retryFailedFrom(r) ==
    /\ UNCHANGED notBatch
    /\ IsNextSlot(r)
    /\ LET failed == failedIndices(results) IN
       IF Len(failed) = 0
       THEN /\ toast' = <<"info", "No failed files to retry">>
            /\ UNCHANGED <<results, isProcessing, currentIndex, runs, started>>
       ELSE LET i == failed[1]
                upd == [results EXCEPT ![i + 1] = MarkProcessing(@, "retryFailed")]
            IN /\ isProcessing' = TRUE
               /\ currentIndex' = i
               /\ results' = upd
               /\ runs' = [runs EXCEPT ![r] =
                             [id |-> r, kind |-> "retryFailed", pc |-> "fileToBase64",
                              todo |-> failed, k |-> 1, updatedResults |-> upd,
                              log |-> <<Ev("processing", i)>>, atClick |-> results]]
               /\ started' = r
               /\ toast' = NoToast
    /\ finished' = IdleRun /\ zip' = NoArchive
    /\ UNCHANGED files

\* Click on Retry Failed
retryFailed(r) ==
    /\ RetryFailedVisible
    /\ retryFailedFrom(r)

\* fileToBase64 resolves: the invocation calls extractText and awaits it
FileRead(r) ==
    /\ UNCHANGED notBatch
    /\ runs[r].pc = "fileToBase64"
    /\ files[CurFile(runs[r]) + 1].readable
    /\ runs' = [runs EXCEPT ![r].pc = "extractText",
                            ![r].log = @ \o <<Ev("request", CurFile(runs[r]))>>]
    /\ finished' = IdleRun /\ zip' = NoArchive /\ toast' = NoToast
    /\ UNCHANGED <<files, results, isProcessing, currentIndex, started>>

\* fileToBase64 rejects (reader.onerror): the catch block runs
FileReadFails(r) ==
    /\ UNCHANGED notBatch
    /\ runs[r].pc = "fileToBase64"
    /\ ~files[CurFile(runs[r]) + 1].readable
    /\ LET run == runs[r]
           i == CurFile(run)
       IN Settle(r, ApplyException(run.updatedResults[i + 1], MsgReadFailed),
                 IF run.kind = "processFiles"
                 THEN <<"error", "Processing failed", i>> ELSE NoToast)
    /\ zip' = NoArchive
    /\ UNCHANGED <<files, started>>

\* extractText returns
ExtractReturns(r, resp) ==
    /\ UNCHANGED notBatch
    /\ runs[r].pc = "extractText"
    /\ LET run == runs[r]
           i == CurFile(run)
           ret == extractText(i, resp)
       IN Settle(r, ApplyReturn(run.updatedResults[i + 1], ret),
                 IF run.kind = "processFiles"
                 THEN (IF ret.error.type # "none"
                       THEN <<"error", ret.error.message, i>>
                       ELSE IF ret.data.present
                            THEN <<"success", "Text extracted successfully", i>>
                            ELSE NoToast)
                 ELSE NoToast)
    /\ zip' = NoArchive
    /\ UNCHANGED <<files, started>>

\* The 500 ms timer fires
DelayElapsed(r) ==
    /\ UNCHANGED notBatch
    /\ runs[r].pc = "delay"
    /\ Advance(r, runs[r].updatedResults, results,
               runs[r].log \o <<Ev("delay", BATCH_DELAY_MS)>>, NoToast)
    /\ zip' = NoArchive
    /\ UNCHANGED <<files, started>>

(***************************************************************************)
(* ZIP export                                                              *)
(***************************************************************************)
EmptyText == <<"">>

TxtExt == <<".", "t", "x", "t">>

\* The positions of the dots of a name
Dots(name) == {p \in 1..Len(name) : name[p] = "."}

\* result.filename.replace(/\.[^.]+$/, ".txt"): the pattern matches the last
\* dot and what follows it, when at least one character follows it
TxtFilename(name) ==
    IF Dots(name) = {} THEN name
    ELSE LET p == CHOOSE d \in Dots(name) : \A e \in Dots(name) : e <= d
         IN IF p < Len(name) THEN SubSeq(name, 1, p - 1) \o TxtExt ELSE name

\* zip.file(name, data): an entry of the same name is replaced
ZipFile(entries, name, data) ==
    IF \E e \in 1..Len(entries) : entries[e].name = name
    THEN [e \in 1..Len(entries) |->
            IF entries[e].name = name THEN [name |-> name, data |-> data] ELSE entries[e]]
    ELSE Append(entries, [name |-> name, data |-> data])

SuccessfulResults(res) == SelectSeq(res, LAMBDA x : x.status = "success")

RECURSIVE ZipAll(_, _, _)
ZipAll(entries, sres, j) ==
    IF j > Len(sres) THEN entries
    ELSE ZipAll(ZipFile(entries, TxtFilename(sres[j].filename),
                        IF sres[j].extractedText = <<>> THEN EmptyText ELSE sres[j].extractedText),
                sres, j + 1)

\* Click on Download All
handleDownloadZip ==
    /\ UNCHANGED notBatch
    /\ DownloadAllVisible
    /\ LET sres == SuccessfulResults(results) IN
       IF Len(sres) = 0
       THEN /\ toast' = <<"error", "No successful extractions to download">>
            /\ zip' = NoArchive
       ELSE /\ zip' = [produced |-> TRUE, entries |-> ZipAll(<<>>, sres, 1)]
            /\ toast' = <<"success", "Downloaded files as ZIP", Len(sres)>>
    /\ finished' = IdleRun
    /\ UNCHANGED <<files, results, isProcessing, currentIndex, runs, started>>

\* zip.generateAsync rejects: the catch block
handleDownloadZipFails ==
    /\ UNCHANGED notBatch
    /\ DownloadAllVisible
    /\ toast' = <<"error", "Failed to generate ZIP file">>
    /\ finished' = IdleRun /\ zip' = NoArchive
    /\ UNCHANGED <<files, results, isProcessing, currentIndex, runs, started>>

NextBatch ==
    \/ \E r \in Runs : processFiles(r)
    \/ \E r \in Runs : retryFailed(r)
    \/ \E r \in Runs : FileRead(r)
    \/ \E r \in Runs : FileReadFails(r)
    \/ \E r \in Runs, resp \in Responses : ExtractReturns(r, resp)
    \/ \E r \in Runs : DelayElapsed(r)
    \/ handleDownloadZip
    \/ handleDownloadZipFails



\* Every call of fileToBase64 and extractText eventually returns or throws,
\* and every timer eventually fires.
RunStep(r) ==
    \/ FileRead(r)
    \/ FileReadFails(r)
    \/ \E resp \in Responses : ExtractReturns(r, resp)
    \/ DelayElapsed(r)

\* The other parts of the application at rest
KeysIdle ==
    /\ db = {}
    /\ calls = <<>>
    /\ answer = <<>>

UploadIdle ==
    /\ pageFiles = <<>>
    /\ uploaderFiles = <<>>
    /\ capturedFile = <<>>
    /\ showPreviewModal = FALSE
    /\ viewMode = "upload"
    /\ pageToast = <<>>

ValidateIdle ==
    /\ candidate = <<>>
    /\ validation = <<>>

\* The component alone
ClientIdle ==
    /\ response = <<>>
    /\ ocrError = <<>>

RetryIdle == retry = <<>>

\* The page before its API key is loaded, nothing processed
PageIdle ==
    /\ pageApiKey = <<>>
    /\ showNoKeyDialog = FALSE
    /\ singleResult = <<>>
    /\ singles = <<>>
    /\ requests = {}
    /\ isLoadingKey = TRUE
    /\ abortController = 0
    /\ processingState = <<>>

OthersIdle == ClientIdle /\ RetryIdle /\ PageIdle

InitBatchAlone == InitBatch /\ KeysIdle /\ UploadIdle /\ ValidateIdle /\ OthersIdle

SpecBatch == InitBatchAlone /\ [][NextBatch]_vars

FairSpecBatch == SpecBatch /\ \A r \in Runs : WF_vars(RunStep(r))

(***************************************************************************)
(* Properties of the BatchProcessor                                        *)
(***************************************************************************)
\* The invocations of processFiles, in flight or just returned
ProcessFilesRuns ==
    {runs[r] : r \in {q \in Runs : runs[q].kind = "processFiles"}} \cup
    (IF finished.kind = "processFiles" THEN {finished} ELSE {})

Positions(run, what, i) == {p \in 1..Len(run.log) : run.log[p] = Ev(what, i)}

Processing == {j \in 1..Len(results) : results[j].status = "processing"}
Outstanding == {r \in Runs : runs[r].pc = "extractText"}

\* C1: batch processing is sequential: whatever the user clicks and however
\* the requests complete, at most one file has status "processing" and at
\* most one extractText call is outstanding.
C1_Sequential ==
    /\ Cardinality(Processing) <= 1
    /\ Cardinality(Outstanding) <= 1

\* C2: once Start Processing is clicked, processFiles eventually returns, and
\* when it returns isProcessing is false and every file is success or error,
\* so that successCount + errorCount is the number of files.
C2_ProcessFilesTerminates ==
    \A r \in Runs :
        (runs[r].kind = "processFiles") ~>
            (/\ finished.id = r
             /\ finished.kind = "processFiles"
             /\ ~isProcessing
             /\ allComplete
             /\ successCount + errorCount = Len(files))

C2_Witness ==
    /\ finished.kind = "processFiles"
    /\ ~isProcessing
    /\ successCount > 0
    /\ errorCount > 0


\* Every invocation, in flight or just returned
AllRuns ==
    {runs[r] : r \in {q \in Runs : runs[q].kind # "none"}} \cup
    (IF finished.kind # "none" THEN {finished} ELSE {})

FileIndices == 0..(Len(files) - 1)

RequestPositions(run) == {p \in 1..Len(run.log) : run.log[p].ev = "request"}

\* C3 as stated: one run of processFiles issues exactly one extractText
\* request per file, in ascending index order.
C3_ExactlyOneRequestPerFile ==
    finished.kind = "processFiles" =>
        /\ \A i \in FileIndices : Cardinality(Positions(finished, "request", i)) = 1
        /\ \A p, q \in RequestPositions(finished) :
              p < q => finished.log[p].arg < finished.log[q].arg

\* C3, amended: no automatic retry.  One invocation (of processFiles or of
\* retryFailed) issues its extractText requests in strictly ascending index
\* order, hence at most one per file whatever the request's outcome; a file
\* the invocation has finished with was requested exactly once when its
\* fileToBase64 conversion succeeded and never when the conversion threw.
C3_NoAutomaticRetry ==
    \A run \in AllRuns :
        /\ \A p, q \in RequestPositions(run) :
              p < q => run.log[p].arg < run.log[q].arg
        /\ \A i \in FileIndices :
              Positions(run, "settled", i) # {} =>
                 Cardinality(Positions(run, "request", i)) =
                    (IF files[i + 1].readable THEN 1 ELSE 0)

\* A run of processFiles has returned after a rate-limit error on one file
\* and a failed conversion of another.
C3_Witness ==
    /\ finished.kind = "processFiles"
    /\ \E j \in 1..Len(files) : finished.updatedResults[j].error = MsgRateLimit
    /\ \E j \in 1..Len(files) : finished.updatedResults[j].error = MsgReadFailed
    /\ Cardinality(RequestPositions(finished)) = Len(files) - 1

\* C4: in processFiles a 500 ms delay separates every two consecutive files:
\* file i+1 is set to "processing" only directly after a delay of 500 ms that
\* directly follows the outcome (success or error) of file i, and no delay
\* follows the last file.
C4_DelayBetweenFiles ==
    \A run \in ProcessFilesRuns :
        /\ \A p \in 2..Len(run.log) :
              run.log[p].ev = "processing" =>
                 /\ p >= 3
                 /\ run.log[p - 1] = Ev("delay", BATCH_DELAY_MS)
                 /\ run.log[p - 2] = Ev("settled", run.log[p].arg - 1)
                 /\ run.updatedResults[run.log[p].arg].status \in {"success", "error"}
        /\ \A p \in 2..Len(run.log) :
              run.log[p].ev = "delay" =>
                 /\ run.log[p - 1].ev = "settled"
                 /\ run.log[p - 1].arg < Len(files) - 1
        /\ run.pc = "done" =>
              run.log[Len(run.log)] = Ev("settled", Len(files) - 1)

\* A run of processFiles over three files has returned after two delays.
C4_Witness ==
    /\ finished.kind = "processFiles"
    /\ Len(files) = 3
    /\ Cardinality({p \in 1..Len(finished.log) : finished.log[p].ev = "delay"}) = 2

\* Whether a name ends in ".txt"
EndsWithTxt(name) ==
    /\ Len(name) >= Len(TxtExt)
    /\ SubSeq(name, Len(name) - Len(TxtExt) + 1, Len(name)) = TxtExt

\* C10: the archive of handleDownloadZip holds exactly one entry per file
\* whose status is success, each named with a .txt extension and holding that
\* file's extracted text, so the number of entries is the N of "Downloaded N
\* files as ZIP".
C10_ZipOneEntryPerSuccess ==
    zip.produced =>
        LET sres == SuccessfulResults(results) IN
        /\ Len(zip.entries) = Len(sres)
        /\ toast = <<"success", "Downloaded files as ZIP", Len(zip.entries)>>
        /\ \A e \in 1..Len(zip.entries) : EndsWithTxt(zip.entries[e].name)
        /\ \A j \in 1..Len(sres) :
              \E e \in 1..Len(zip.entries) : zip.entries[e].data = sres[j].extractedText


(***************************************************************************)
(* Client-side encryption (the encryption module)                          *)
(*                                                                         *)
(* Strings are sequences of UTF-16 code units, byte arrays sequences of    *)
(* numbers below 256, base64 text a sequence of sextets with 64 for "=".   *)
(***************************************************************************)
IV_LENGTH == 12
TAG_LENGTH == 1     \* the AES-GCM tag, one byte here instead of sixteen

UserIds == {"user-1", "user-2"}

\* Keys the settings page lets through validateApiKeyFormat: [A-Za-z0-9_-]
ApiKeys == { <<115, 107, 45, 65>>, <<115, 107, 95, 66, 50>> }

\* crypto.getRandomValues(new Uint8Array(12)): the values it delivers here
IVs == { [j \in 1..IV_LENGTH |-> (37 * j) % 256] }

RECURSIVE Sum(_)
Sum(q) == IF q = <<>> THEN 0 ELSE Head(q) + Sum(Tail(q))

RECURSIVE Flatten(_)
Flatten(qq) == IF qq = <<>> THEN <<>> ELSE Head(qq) \o Flatten(Tail(qq))

\* new TextEncoder().encode(s), for code units below 0x800
Utf8Encode(str) ==
    Flatten([j \in 1..Len(str) |->
                IF str[j] < 128 THEN <<str[j]>>
                ELSE <<192 + (str[j] \div 64), 128 + (str[j] % 64)>>])

\* new TextDecoder().decode(bytes), for the same range
RECURSIVE Utf8Decode(_)
Utf8Decode(bytes) ==
    IF bytes = <<>> THEN <<>>
    ELSE IF bytes[1] < 128 THEN <<bytes[1]>> \o Utf8Decode(Tail(bytes))
    ELSE IF Len(bytes) >= 2 /\ bytes[1] >= 192 /\ bytes[2] >= 128 /\ bytes[2] < 192
         THEN <<(bytes[1] - 192) * 64 + (bytes[2] - 128)>> \o Utf8Decode(Tail(Tail(bytes)))
         ELSE <<65533>> \o Utf8Decode(Tail(bytes))

\* deriveKey(userId): PBKDF2 over the user id with the fixed salt; the key is
\* a function of the user id alone
deriveKey(userId) == IF userId = "user-1" THEN 17 ELSE 91

\* AES-GCM as a keyed, IV-dependent byte cipher with an authentication tag
KeyStream(key, iv, j) == (key + iv[((j - 1) % IV_LENGTH) + 1] + 7 * j) % 256

GcmTag(key, iv, pt) == <<(key + Sum(iv) + 3 * Sum(pt) + Len(pt)) % 256>>

\* crypto.subtle.encrypt({ name: "AES-GCM", iv }, key, data)
SubtleEncrypt(key, iv, pt) ==
    [j \in 1..Len(pt) |-> (pt[j] + KeyStream(key, iv, j)) % 256] \o GcmTag(key, iv, pt)

\* crypto.subtle.decrypt({ name: "AES-GCM", iv }, key, data): the plaintext,
\* or a rejection when the tag does not authenticate the data
DecryptFailure == <<-1>>

SubtleDecrypt(key, iv, data) ==
    IF Len(data) < TAG_LENGTH \/ Len(iv) # IV_LENGTH THEN DecryptFailure
    ELSE LET n == Len(data) - TAG_LENGTH
             pt == [j \in 1..n |-> (data[j] + 256 - KeyStream(key, iv, j)) % 256]
         IN IF SubSeq(data, n + 1, Len(data)) = GcmTag(key, iv, pt)
            THEN pt ELSE DecryptFailure

\* btoa(String.fromCharCode(...bytes))
RECURSIVE Btoa(_)
Btoa(b) ==
    IF b = <<>> THEN <<>>
    ELSE IF Len(b) = 1
         THEN <<b[1] \div 4, (b[1] % 4) * 16, 64, 64>>
    ELSE IF Len(b) = 2
         THEN <<b[1] \div 4, (b[1] % 4) * 16 + (b[2] \div 16), (b[2] % 16) * 4, 64>>
    ELSE <<b[1] \div 4, (b[1] % 4) * 16 + (b[2] \div 16),
           (b[2] % 16) * 4 + (b[3] \div 64), b[3] % 64>> \o Btoa(SubSeq(b, 4, Len(b)))

\* Uint8Array.from(atob(text), (c) => c.charCodeAt(0)); text is well-formed
\* base64 whenever the service calls it (the column is written by Btoa, or by
\* whatever the mutated service wrote)
RECURSIVE Atob(_)
Atob(t) ==
    IF Len(t) < 4 THEN <<>>
    ELSE (IF t[3] = 64
          THEN <<(t[1] * 4 + (t[2] \div 16)) % 256>>
          ELSE IF t[4] = 64
               THEN <<(t[1] * 4 + (t[2] \div 16)) % 256, ((t[2] % 16) * 16 + (t[3] \div 4)) % 256>>
               ELSE <<(t[1] * 4 + (t[2] \div 16)) % 256, ((t[2] % 16) * 16 + (t[3] \div 4)) % 256,
                      ((t[3] % 4) * 64 + t[4]) % 256>>)
         \o Atob(SubSeq(t, 5, Len(t)))

\* encryptApiKey(apiKey, userId) with the IV the random generator delivered:
\* base64 of the IV followed by the encrypted data
encryptApiKey(apiKey, userId, iv) ==
    Btoa(iv \o SubtleEncrypt(deriveKey(userId), iv, Utf8Encode(apiKey)))

\* decryptApiKey(encryptedData, userId): the plaintext, or DecryptFailure for
\* the thrown "Failed to decrypt API key"
decryptApiKey(encryptedData, userId) ==
    LET combined == Atob(encryptedData)
        iv == SubSeq(combined, 1, IV_LENGTH)
        data == SubSeq(combined, IV_LENGTH + 1, Len(combined))
        pt == SubtleDecrypt(deriveKey(userId), iv, data)
    IN IF pt = DecryptFailure THEN DecryptFailure ELSE Utf8Decode(pt)


(***************************************************************************)
(* The user_api_keys table and the API key service                         *)
(***************************************************************************)
CallIds == 1..MaxCalls

NoCall ==
    [op |-> "none", user |-> "", apiKey |-> <<>>, pc |-> "idle",
     encryptedKey |-> <<>>, existing |-> FALSE, success |-> FALSE, error |-> "",
     undisturbed |-> FALSE, unfollowed |-> FALSE]

NoAnswer ==
    [op |-> "none", user |-> "", success |-> FALSE, hasKey |-> FALSE,
     returned |-> <<>>, error |-> ""]

InitKeys ==
    /\ db = {}
    /\ calls = [c \in CallIds |-> NoCall]
    /\ answer = NoAnswer

\* Calls are numbered in the order they are made
IsNextCall(c) == calls[c].op = "none" /\ \A b \in 1..(c - 1) : calls[b].op # "none"

RowsOf(rows, userId) == {row \in rows : row.user_id = userId}

\* .select(...).eq("user_id", userId).single(): the row when exactly one row
\* matches, otherwise no data and the error PGRST116
SingleRow(rows, userId) ==
    IF Cardinality(RowsOf(rows, userId)) = 1
    THEN [found |-> TRUE, row |-> CHOOSE row \in RowsOf(rows, userId) : TRUE]
    ELSE [found |-> FALSE,
          row |-> [id |-> 0, user_id |-> userId, encrypted_api_key |-> <<>>, updated |-> FALSE]]

\* INSERT under user_id TEXT NOT NULL UNIQUE, without the constraint
InsertRowNoUnique(rows, id, userId, value) ==
    [ok |-> TRUE,
     rows |-> rows \cup {[id |-> id, user_id |-> userId,
                          encrypted_api_key |-> value, updated |-> FALSE]}]

\* INSERT under user_id TEXT NOT NULL UNIQUE: rejected when the user has a row
InsertRow(rows, id, userId, value) ==
    IF RowsOf(rows, userId) # {}
    THEN [ok |-> FALSE, rows |-> rows]
    ELSE [ok |-> TRUE,
          rows |-> rows \cup {[id |-> id, user_id |-> userId,
                               encrypted_api_key |-> value, updated |-> FALSE]}]

\* An update whose filter matches no row
UpdateRowsMatchesNothing(rows, userId, value) == rows

\* .update({ encrypted_api_key: value }).eq("user_id", userId); the trigger
\* refreshes updated_at
UpdateRows(rows, userId, value) ==
    {IF row.user_id = userId
     THEN [row EXCEPT !.encrypted_api_key = value, !.updated = TRUE]
     ELSE row : row \in rows}

\* .delete().eq("user_id", userId)
DeleteRows(rows, userId) == rows \ RowsOf(rows, userId)

\* The value saveApiKey sends to the column, the plaintext instead
ColumnValuePlaintext(call) == call.apiKey

\* { encrypted_api_key: encryptedKey }
ColumnValue(call) == call.encryptedKey

\* Call c writes to the table (or tries to) for userId: the other saves of
\* that user are no longer undisturbed, and those that have returned are no
\* longer unfollowed
Disturb(cs, c, userId) ==
    [b \in CallIds |->
        IF b # c /\ cs[b].op = "save" /\ cs[b].user = userId
        THEN [cs[b] EXCEPT !.undisturbed = FALSE,
                           !.unfollowed = FALSE]
        ELSE cs[b]]

\* saveApiKey(userId, apiKey) up to the await of the select: the key is
\* encrypted under the IV the random generator delivers
saveApiKey(c, userId, apiKey, iv) ==
    /\ UNCHANGED notKeys
    /\ IsNextCall(c)
    /\ calls' = [calls EXCEPT ![c] =
                   [NoCall EXCEPT !.op = "save", !.user = userId, !.apiKey = apiKey,
                                  !.pc = "select", !.undisturbed = TRUE,
                                  !.encryptedKey = encryptApiKey(apiKey, userId, iv)]]
    /\ answer' = NoAnswer
    /\ UNCHANGED db

\* The select answers (reached says whether the request got an answer at
\* all): existing is the row, or null
SaveSelect(c, reached) ==
    /\ UNCHANGED notKeys
    /\ calls[c].op = "save" /\ calls[c].pc = "select"
    /\ calls' = [calls EXCEPT ![c].pc = "write",
                              ![c].existing = reached /\ SingleRow(db, calls[c].user).found]
    /\ answer' = NoAnswer
    /\ UNCHANGED db

\* The update (existing) or the insert (no existing row) answers, and
\* saveApiKey returns
SaveWrite(c, reached) ==
    /\ UNCHANGED notKeys
    /\ calls[c].op = "save" /\ calls[c].pc = "write"
    /\ LET call == calls[c]
           ins == InsertRow(db, c, call.user, ColumnValue(call))
           okay == reached /\ (call.existing \/ ins.ok)
       IN /\ db' = IF ~reached THEN db
                   ELSE IF call.existing THEN UpdateRows(db, call.user, ColumnValue(call))
                   ELSE ins.rows
          /\ calls' = [Disturb(calls, c, call.user) EXCEPT ![c] =
                         [call EXCEPT !.pc = "done", !.success = okay, !.unfollowed = TRUE,
                                      !.error = IF okay THEN "" ELSE "Failed to save API key"]]
          /\ answer' = NoAnswer

\* What getApiKey(userId) returns on the table as it is
getApiKeyResult(rows, userId, reached) ==
    LET sel == SingleRow(rows, userId)
        none == [hasKey |-> FALSE, returned |-> <<>>, error |-> ""]
    IN IF ~reached THEN [none EXCEPT !.error = "Failed to retrieve API key"]
       ELSE IF ~sel.found THEN none
       ELSE IF sel.row.encrypted_api_key = <<>> THEN none
       ELSE LET k == decryptApiKey(sel.row.encrypted_api_key, userId)
            IN IF k = DecryptFailure
               THEN [none EXCEPT !.error = "Failed to decrypt API key"]
               ELSE [hasKey |-> TRUE, returned |-> k, error |-> ""]

\* getApiKey(userId): the select answers and the key is decrypted
getApiKey(userId, reached) ==
    /\ UNCHANGED notKeys
    /\ LET res == getApiKeyResult(db, userId, reached)
       IN answer' = [op |-> "get", user |-> userId, success |-> res.error = "",
                     hasKey |-> res.hasKey, returned |-> res.returned, error |-> res.error]
    /\ UNCHANGED <<db, calls>>

\* deleteApiKey(userId)
deleteApiKey(userId, reached) ==
    /\ UNCHANGED notKeys
    /\ db' = IF reached THEN DeleteRows(db, userId) ELSE db
    /\ calls' = Disturb(calls, 0, userId)
    /\ answer' = [NoAnswer EXCEPT !.op = "delete", !.user = userId, !.success = reached,
                                  !.error = IF reached THEN "" ELSE "Failed to delete API key"]

NextKeys ==
    \/ \E c \in CallIds, u \in UserIds, k \in ApiKeys, iv \in IVs : saveApiKey(c, u, k, iv)
    \/ \E c \in CallIds, reached \in BOOLEAN : SaveSelect(c, reached)
    \/ \E c \in CallIds, reached \in BOOLEAN : SaveWrite(c, reached)
    \/ \E u \in UserIds, reached \in BOOLEAN : getApiKey(u, reached)
    \/ \E u \in UserIds, reached \in BOOLEAN : deleteApiKey(u, reached)

\* The service alone: no BatchProcessor is mounted
BatchIdle ==
    /\ files = <<>>
    /\ results = <<>>
    /\ isProcessing = FALSE
    /\ currentIndex = 0
    /\ runs = <<>>
    /\ started = 0
    /\ finished = IdleRun
    /\ zip = NoArchive
    /\ toast = NoToast

InitKeysAlone == InitKeys /\ BatchIdle /\ UploadIdle /\ ValidateIdle /\ OthersIdle

SpecKeys == InitKeysAlone /\ [][NextKeys]_vars

(***************************************************************************)
(* Properties of the API key service                                       *)
(***************************************************************************)
\* C5: every value in user_api_keys.encrypted_api_key, written by the insert
\* or by the update of saveApiKey, is an output of encryptApiKey(apiKey,
\* userId) for a key and the row's user, and is never the plaintext key.
C5_StoredEncrypted ==
    \A row \in db :
        /\ \E c \in CallIds, iv \in IVs :
              /\ calls[c].op = "save" /\ calls[c].user = row.user_id
              /\ row.encrypted_api_key = encryptApiKey(calls[c].apiKey, row.user_id, iv)
        /\ row.encrypted_api_key \notin ApiKeys
        /\ \A c \in CallIds :
              calls[c].op = "save" => row.encrypted_api_key # calls[c].apiKey

\* A row first written by the insert of one save now holds the value written
\* by the update of another.
C5_Witness ==
    \E row \in db, c \in CallIds :
        /\ row.updated /\ row.id # c
        /\ calls[c].op = "save" /\ calls[c].pc = "done" /\ calls[c].existing
        /\ row.encrypted_api_key = calls[c].encryptedKey

\* C6 as stated: when saveApiKey(u, k) has returned success and no other
\* save or delete for u has written to the table since it returned,
\* getApiKey(u) returns k without error.
C6_RoundTripAfterReturn ==
    \A c \in CallIds :
        (calls[c].op = "save" /\ calls[c].pc = "done" /\ calls[c].success
            /\ calls[c].unfollowed)
        => getApiKeyResult(db, calls[c].user, TRUE) =
              [hasKey |-> TRUE, returned |-> calls[c].apiKey, error |-> ""]

\* C6: when saveApiKey(u, k) has returned success and no other save or
\* delete for u has written to the table since that call began, getApiKey(u)
\* returns k without error, after an insert and after an update alike.
C6_SaveGetRoundTrip ==
    \A c \in CallIds :
        (calls[c].op = "save" /\ calls[c].pc = "done" /\ calls[c].success
            /\ calls[c].undisturbed)
        => /\ getApiKeyResult(db, calls[c].user, TRUE) =
                 [hasKey |-> TRUE, returned |-> calls[c].apiKey, error |-> ""]
           /\ (answer.op = "get" /\ answer.user = calls[c].user /\ answer.error = "")
                 => answer.hasKey /\ answer.returned = calls[c].apiKey

\* An undisturbed save that replaced another key by an update, followed by a
\* get of the same user.
C6_Witness ==
    \E c \in CallIds :
        /\ calls[c].op = "save" /\ calls[c].pc = "done" /\ calls[c].success
        /\ calls[c].undisturbed /\ calls[c].existing
        /\ answer.op = "get" /\ answer.user = calls[c].user
        /\ answer.returned = calls[c].apiKey
        /\ \E b \in 1..(c - 1) : calls[b].op = "save" /\ calls[b].user = calls[c].user
                                  /\ calls[b].apiKey # calls[c].apiKey

\* C7: whatever the interleaving of saveApiKey and deleteApiKey calls, the
\* table holds at most one row per user.
C7_OneRowPerUser ==
    \A u \in UserIds : Cardinality(RowsOf(db, u)) <= 1

\* Two saves of one user both saw no row; one inserted, the other was refused.
C7_Witness ==
    \E a, b \in CallIds :
        /\ a # b
        /\ calls[a].op = "save" /\ calls[b].op = "save" /\ calls[a].user = calls[b].user
        /\ calls[a].pc = "done" /\ calls[b].pc = "done"
        /\ ~calls[a].existing /\ ~calls[b].existing
        /\ calls[a].success /\ ~calls[b].success
        /\ Cardinality(RowsOf(db, calls[a].user)) = 1


(***************************************************************************)
(* validateFile (src/lib/deepseek-client.ts)                               *)
(***************************************************************************)
MAX_SIZE == 10 * 1024 * 1024

ACCEPTED_TYPES == {"image/jpeg", "image/png", "image/webp", "application/pdf"}

\* A File as validateFile sees it
UploadFile(n, t, sz) == [name |-> n, type |-> t, size |-> sz]

FormatError(file) == [file |-> file.name, kind |-> "Format not supported"]
SizeError(file) == [file |-> file.name, kind |-> "File exceeds 10MB limit"]
NoValidationError == [file |-> "", kind |-> ""]

\* validateFile with a file of exactly MAX_SIZE bytes refused
validateFileRefusesLimit(file) ==
    IF file.type \notin ACCEPTED_TYPES
    THEN [valid |-> FALSE, error |-> FormatError(file)]
    ELSE IF file.size >= MAX_SIZE
    THEN [valid |-> FALSE, error |-> SizeError(file)]
    ELSE [valid |-> TRUE, error |-> NoValidationError]

\* validateFile(file): the type is tested first, then the size
validateFile(file) ==
    IF file.type \notin ACCEPTED_TYPES
    THEN [valid |-> FALSE, error |-> FormatError(file)]
    ELSE IF file.size > MAX_SIZE
    THEN [valid |-> FALSE, error |-> SizeError(file)]
    ELSE [valid |-> TRUE, error |-> NoValidationError]

\* The files validateFile is applied to
CandidateTypes ==
    ACCEPTED_TYPES \cup {"image/gif", "image/heic", "image/jpg", "text/plain", ""}

CandidateSizes ==
    {0, 1, MAX_SIZE \div 2, MAX_SIZE - 1, MAX_SIZE, MAX_SIZE + 1, 2 * MAX_SIZE}

Candidates == {UploadFile("doc", t, sz) : t \in CandidateTypes, sz \in CandidateSizes}

InitValidate ==
    /\ candidate \in Candidates
    /\ validation = <<>>

Validate ==
    /\ validation = <<>>
    /\ validation' = validateFile(candidate)
    /\ UNCHANGED candidate
    /\ UNCHANGED notValidate

NextValidate == Validate

InitValidateAlone == InitValidate /\ BatchIdle /\ KeysIdle /\ UploadIdle /\ OthersIdle

SpecValidate == InitValidateAlone /\ [][NextValidate]_vars

\* C8: validateFile accepts a file exactly when its type is one of image/jpeg,
\* image/png, image/webp, application/pdf and its size is at most
\* 10 * 1024 * 1024 bytes; a file of exactly that size is accepted; a file
\* wrong in both type and size is refused with the format error.
C8_ValidateFile ==
    validation # <<>> =>
        LET typeOk == candidate.type \in
                         {"image/jpeg", "image/png", "image/webp", "application/pdf"}
            sizeOk == candidate.size <= 10485760
        IN /\ validation.valid <=> (typeOk /\ sizeOk)
           /\ (typeOk /\ candidate.size = 10485760) => validation.valid
           /\ (~typeOk /\ ~sizeOk) => validation.error.kind = "Format not supported"

\* An accepted type at exactly 10 MiB has been validated and accepted.
C8_Witness ==
    /\ validation # <<>>
    /\ candidate.type = "application/pdf"
    /\ candidate.size = 10485760
    /\ validation.valid

(***************************************************************************)
(* The upload queue: OCRUploader, CameraCapture and the page's files       *)
(***************************************************************************)
maxFiles == 10

Scan == UploadFile("scan.png", "image/png", 2048)
Anim == UploadFile("anim.gif", "image/gif", 2048)
Huge == UploadFile("huge.pdf", "application/pdf", MAX_SIZE + 1)
Photo == UploadFile("photo.jpg", "image/jpeg", 4096)
RawPhoto == UploadFile("photo.heic", "image/heic", 4096)

\* What a drop or a pick hands to handleFiles: a FileList of one file or more
DroppedKinds == {Scan, Anim, Huge}
Drops == UNION {[1..n -> DroppedKinds] : n \in 1..MaxDrop}

\* What the camera input (accept="image/*") hands to onCapture
CameraKinds == {Photo, RawPhoto}

\* Array.prototype.splice(start) with the deleted part dropped: what is left
\* of q; a negative start counts from the end
Splice(q, start) ==
    LET from == IF start < 0
                THEN (IF Len(q) + start < 0 THEN 0 ELSE Len(q) + start)
                ELSE (IF start > Len(q) THEN Len(q) ELSE start)
    IN SubSeq(q, 1, from)

\* files.filter((_, i) => i !== index), index counted from 1
WithoutIndex(q, index) == [j \in 1..(Len(q) - 1) |-> IF j < index THEN q[j] ELSE q[j + 1]]

RECURSIVE ValidationErrors(_)
ValidationErrors(q) ==
    IF q = <<>> THEN <<>>
    ELSE LET v == validateFile(Head(q))
         IN (IF v.valid THEN <<>> ELSE << <<"error", v.error>> >>)
               \o ValidationErrors(Tail(q))

InitUpload ==
    /\ pageFiles = <<>>
    /\ uploaderFiles = <<>>
    /\ capturedFile = <<>>
    /\ showPreviewModal = FALSE
    /\ viewMode = "upload"
    /\ pageToast = <<>>

\* The uploader is mounted and nothing covers it
UploaderUsable == ~isLoadingKey /\ viewMode = "upload" /\ ~showPreviewModal

\* OCRUploader.handleFiles(newFiles), with the onFilesSelected callback of
\* the page (handleFilesSelected: setFiles(selectedFiles))
handleFiles(newFiles) ==
    /\ UNCHANGED notUpload
    /\ UploaderUsable
    /\ LET validFiles == SelectSeq(newFiles, LAMBDA f : validateFile(f).valid)
           errors == ValidationErrors(newFiles)
           totalFiles == Len(uploaderFiles) + Len(validFiles)
           kept == IF totalFiles > maxFiles
                   THEN Splice(validFiles, maxFiles - Len(uploaderFiles))
                   ELSE validFiles
           updatedFiles == uploaderFiles \o kept
       IN /\ IF Len(kept) > 0
             THEN uploaderFiles' = updatedFiles /\ pageFiles' = updatedFiles
             ELSE UNCHANGED <<uploaderFiles, pageFiles>>
          /\ pageToast' =
                (IF totalFiles > maxFiles
                 THEN << <<"error", "Maximum files allowed", maxFiles - Len(uploaderFiles)>> >>
                 ELSE <<>>)
                \o errors
                \o (IF Len(kept) > 0 THEN << <<"success", "added", Len(kept)>> >> ELSE <<>>)
    /\ UNCHANGED <<capturedFile, showPreviewModal, viewMode>>

\* OCRUploader.removeFile(index)
removeFile(index) ==
    /\ UNCHANGED notUpload
    /\ UploaderUsable
    /\ index \in 1..Len(uploaderFiles)
    /\ uploaderFiles' = WithoutIndex(uploaderFiles, index)
    /\ pageFiles' = WithoutIndex(uploaderFiles, index)
    /\ pageToast' = << <<"info", "File removed">> >>
    /\ UNCHANGED <<capturedFile, showPreviewModal, viewMode>>

\* OCRUploader.clearAll: the button is rendered when files.length > 1
clearAll ==
    /\ UNCHANGED notUpload
    /\ UploaderUsable
    /\ Len(uploaderFiles) > 1
    /\ uploaderFiles' = <<>>
    /\ pageFiles' = <<>>
    /\ pageToast' = << <<"info", "All files cleared">> >>
    /\ UNCHANGED <<capturedFile, showPreviewModal, viewMode>>

\* CameraCapture hands a photo to the page's handleCameraCapture
handleCameraCapture(file) ==
    /\ UNCHANGED notUpload
    /\ UploaderUsable
    /\ Len(pageFiles) < MaxQueued
    /\ LET v == validateFile(file)
       IN IF ~v.valid
          THEN /\ pageToast' = << <<"error", v.error>> >>
               /\ UNCHANGED <<capturedFile, showPreviewModal>>
          ELSE /\ capturedFile' = <<file>>
               /\ showPreviewModal' = TRUE
               /\ pageToast' = <<>>
    /\ UNCHANGED <<pageFiles, uploaderFiles, viewMode>>

\* The preview modal's "use this photo"
handleConfirmCapture ==
    /\ UNCHANGED notUpload
    /\ showPreviewModal
    /\ IF capturedFile # <<>>
       THEN /\ pageFiles' = pageFiles \o capturedFile
            /\ pageToast' = << <<"success", "Photo added!">> >>
       ELSE /\ UNCHANGED pageFiles
            /\ pageToast' = <<>>
    /\ showPreviewModal' = FALSE
    /\ capturedFile' = <<>>
    /\ UNCHANGED <<uploaderFiles, viewMode>>

\* The preview modal's "retake"
handleRetakeCapture ==
    /\ UNCHANGED notUpload
    /\ showPreviewModal
    /\ showPreviewModal' = FALSE
    /\ capturedFile' = <<>>
    /\ pageToast' = <<"retake">>
    /\ UNCHANGED <<pageFiles, uploaderFiles, viewMode>>

\* The preview modal is dismissed
handleClosePreview ==
    /\ UNCHANGED notUpload
    /\ showPreviewModal
    /\ showPreviewModal' = FALSE
    /\ capturedFile' = <<>>
    /\ pageToast' = <<"close">>
    /\ UNCHANGED <<pageFiles, uploaderFiles, viewMode>>

(***************************************************************************)
(* Page: API key, single-file processing, cancel and reset                 *)
(***************************************************************************)
PageKey == "sk-live"

Doc == UploadFile("doc.pdf", "application/pdf", 2048)

\* isPDF of pdf-utils, by its name and its use in processSingleFile
isPDF(file) == file.type = "application/pdf"

SingleRuns == 1..MaxSingleRuns

\* One invocation of processSingleFile: its position, the file and the apiKey
\* of its closure, its controller's signal, the pages of its PDF, the loop
\* index, allText and totalTokens; shown: it has set singleResult.
IdleSingle ==
    [pc |-> "idle", file |-> <<>>, apiKey |-> <<>>, aborted |-> FALSE, pages |-> 0,
     i |-> 0, allText |-> <<>>, totalTokens |-> 0, shown |-> FALSE]

\* The page once getApiKey has returned the user's key
PageReady ==
    /\ pageApiKey = <<PageKey>>
    /\ showNoKeyDialog = FALSE
    /\ singleResult = <<>>
    /\ singles = [r \in SingleRuns |-> IdleSingle]
    /\ requests = {}
    /\ isLoadingKey = FALSE
    /\ abortController = 0
    /\ processingState = <<>>

\* if (!apiKey), with every key taken for present
HasApiKeyAlways(key) == TRUE

\* if (!apiKey): null and the empty string count as no key
HasApiKey(key) == key # <<>> /\ key # <<"">>

\* The invocations processSingleFile can still take
FreeSingles == {r \in SingleRuns : singles[r].pc = "idle"}

\* What the OCR endpoint answers to the request of one page: its text, no
\* text at all, or an error
OcrOutcomes == {"data", "empty", "invalid_key", "rate_limit"}

PageText(file, p) == << <<"text", file.name, p>> >>
PageTokens == 7

\* The separator put before the text of page i (from 0) of n pages
PageHeading(i, n) ==
    IF n > 1 /\ i > 0 THEN << <<"---", "## Page", i + 1>> >>
    ELSE IF n > 1 THEN << <<"## Page", 1>> >>
    ELSE <<>>

\* finally { setAbortController(null); setProcessingState(null) }
Finally(r, run) ==
    /\ singles' = [singles EXCEPT ![r] = [run EXCEPT !.pc = "done"]]
    /\ abortController' = 0
    /\ processingState' = <<>>

\* A path of processSingleFile that ends with handleReset(): toasts t, the
\* no-key dialog opened or not
EndWithReset(r, run, t, dialog) ==
    /\ pageFiles' = <<>>
    /\ viewMode' = "upload"
    /\ singleResult' = <<>>
    /\ showNoKeyDialog' = (dialog \/ showNoKeyDialog)
    /\ pageToast' = t
    /\ Finally(r, run)
    /\ UNCHANGED <<uploaderFiles, capturedFile, showPreviewModal, pageApiKey,
                   isLoadingKey, requests>>

\* if (controller.signal.aborted) return
EndAborted(r, run, t) ==
    /\ pageToast' = t
    /\ Finally(r, run)
    /\ UNCHANGED <<pageFiles, uploaderFiles, capturedFile, showPreviewModal, viewMode,
                   pageApiKey, showNoKeyDialog, singleResult, isLoadingKey, requests>>

\* if (allText) { setSingleResult(...); setViewMode("single-preview") }
\* else { toast.error; handleReset() }
AfterExtraction(r, run, t) ==
    IF run.allText # <<>>
    THEN /\ singleResult' = << [text |-> run.allText, tokens |-> run.totalTokens,
                                 fileName |-> run.file.name] >>
         /\ viewMode' = "single-preview"
         /\ pageToast' = t \o << <<"success", "Text extracted successfully!">> >>
         /\ Finally(r, [run EXCEPT !.shown = TRUE])
         /\ UNCHANGED <<pageFiles, uploaderFiles, capturedFile, showPreviewModal,
                        pageApiKey, showNoKeyDialog, isLoadingKey, requests>>
    ELSE EndWithReset(r, run, t \o << <<"error", "No text could be extracted">> >>, FALSE)

\* await extractText(..., apiKey, ...) for page run.i of the file
CallExtractText(r, run, t) ==
    /\ singles' = [singles EXCEPT ![r] = [run EXCEPT !.pc = "extractText"]]
    /\ processingState' = <<"Extracting text">>
    /\ requests' = requests \cup
          {[run |-> r, file |-> run.file.name, page |-> run.i, apiKey |-> run.apiKey]}
    /\ pageToast' = t
    /\ UNCHANGED <<pageFiles, uploaderFiles, capturedFile, showPreviewModal, viewMode,
                   pageApiKey, showNoKeyDialog, singleResult, isLoadingKey,
                   abortController>>

\* for (let i = 0; i < pages.length; i++) { if (controller.signal.aborted) return; ...
LoopTop(r, run, t) ==
    IF run.i < run.pages
    THEN (IF run.aborted THEN EndAborted(r, run, t) ELSE CallExtractText(r, run, t))
    ELSE AfterExtraction(r, run, t)

\* loadApiKey: getApiKey returns an error, no key, or the key
loadApiKey(outcome) ==
    /\ UNCHANGED notPage
    /\ isLoadingKey
    /\ isLoadingKey' = FALSE
    /\ pageToast' = IF outcome = "error"
                    THEN << <<"error", "Failed to load API key">> >> ELSE <<>>
    /\ showNoKeyDialog' = IF outcome = "none" THEN TRUE ELSE showNoKeyDialog
    /\ pageApiKey' = IF outcome = "key" THEN <<PageKey>> ELSE pageApiKey
    /\ UNCHANGED <<pageFiles, uploaderFiles, capturedFile, showPreviewModal, viewMode,
                   singleResult, singles, requests, abortController, processingState>>

\* The no-key dialog is dismissed (onOpenChange)
setShowNoKeyDialog ==
    /\ UNCHANGED notPage
    /\ ~isLoadingKey
    /\ showNoKeyDialog
    /\ showNoKeyDialog' = FALSE
    /\ pageToast' = <<>>
    /\ UNCHANGED <<pageFiles, uploaderFiles, capturedFile, showPreviewModal, viewMode,
                   pageApiKey, singleResult, singles, requests, isLoadingKey,
                   abortController, processingState>>

\* The messages of handleExtractText's toasts, in the form of validateFile's
\* messages (no file is named)
MsgAddKey == [kind |-> "Please add your API key in Settings", file |-> ""]
MsgNoFile == [kind |-> "Please upload at least one file", file |-> ""]

\* processSingleFile(file) up to its first await, as invocation r
processSingleFile(r, file) ==
    IF ~HasApiKey(pageApiKey)
    THEN /\ pageToast' = <<>>
         /\ UNCHANGED <<pageFiles, uploaderFiles, capturedFile, showPreviewModal, viewMode,
                        pageVars>>
    ELSE /\ abortController' = r
         /\ viewMode' = "processing"
         /\ processingState' = <<"Preparing file">>
         /\ singles' = [singles EXCEPT ![r] =
                          [IdleSingle EXCEPT !.pc = IF isPDF(file) THEN "pdfToImages"
                                                   ELSE "fileToBase64",
                                             !.file = file, !.apiKey = pageApiKey]]
         /\ uploaderFiles' = <<>>
         /\ pageToast' = <<>>
         /\ UNCHANGED <<pageFiles, capturedFile, showPreviewModal, pageApiKey,
                        showNoKeyDialog, singleResult, requests, isLoadingKey>>

\* handleExtractText.  The button that calls it is rendered in the upload
\* view with one file or more; the handler tests files.length === 0 itself.
\* When the view leaves "upload" the uploader unmounts and loses its files.
handleExtractText ==
    /\ UNCHANGED notPage
    /\ UploaderUsable
    /\ IF ~HasApiKey(pageApiKey)
       THEN /\ showNoKeyDialog' = TRUE
            /\ UNCHANGED <<pageFiles, uploaderFiles, capturedFile, showPreviewModal,
                           viewMode, pageApiKey, singleResult, singles, requests,
                           isLoadingKey, abortController, processingState>>
            /\ pageToast' = << <<"error", MsgAddKey>> >>
       ELSE IF Len(pageFiles) = 0
       THEN /\ UNCHANGED <<pageFiles, uploaderFiles, capturedFile, showPreviewModal,
                           viewMode, pageVars>>
            /\ pageToast' = << <<"error", MsgNoFile>> >>
       ELSE IF Len(pageFiles) = 1
       THEN /\ FreeSingles # {}
            /\ processSingleFile(CHOOSE r \in FreeSingles : \A q \in FreeSingles : r <= q,
                                 pageFiles[1])
       ELSE /\ viewMode' = "batch-processing"
            /\ uploaderFiles' = <<>>
            /\ pageToast' = <<>>
            /\ UNCHANGED <<pageFiles, capturedFile, showPreviewModal, pageVars>>

\* pdfToImages resolves with n pages
pdfToImagesResolves(r, n) ==
    /\ UNCHANGED notPage
    /\ singles[r].pc = "pdfToImages"
    /\ LoopTop(r, [singles[r] EXCEPT !.pages = n, !.i = 0], <<>>)

\* pdfToImages rejects: the catch block
pdfToImagesRejects(r) ==
    /\ UNCHANGED notPage
    /\ singles[r].pc = "pdfToImages"
    /\ EndWithReset(r, singles[r], << <<"error", "Failed to process file">> >>, FALSE)

\* fileToBase64 resolves (image)
fileToBase64Resolves(r) ==
    /\ UNCHANGED notPage
    /\ singles[r].pc = "fileToBase64"
    /\ IF singles[r].aborted
       THEN EndAborted(r, singles[r], <<>>)
       ELSE CallExtractText(r, singles[r], <<>>)

\* fileToBase64 rejects: the catch block
fileToBase64Rejects(r) ==
    /\ UNCHANGED notPage
    /\ singles[r].pc = "fileToBase64"
    /\ EndWithReset(r, singles[r], << <<"error", "Failed to process file">> >>, FALSE)

\* extractText returns to processSingleFile
extractTextReturns(r, outcome) ==
    /\ UNCHANGED notPage
    /\ singles[r].pc = "extractText"
    /\ LET run == singles[r]
           text == IF outcome = "data" THEN PageText(run.file, run.i) ELSE <<>>
           isError == outcome \in {"invalid_key", "rate_limit"}
           errorToast == << <<"error", outcome, run.i + 1>> >>
       IN IF isPDF(run.file)
          THEN IF isError
               THEN IF outcome = "invalid_key"
                    THEN EndWithReset(r, run, errorToast, TRUE)
                    ELSE LoopTop(r, [run EXCEPT !.i = @ + 1], errorToast)
               ELSE LoopTop(r, [run EXCEPT
                                  !.allText = @ \o PageHeading(run.i, run.pages) \o text,
                                  !.totalTokens = @ + PageTokens,
                                  !.i = @ + 1], <<>>)
          ELSE IF isError
               THEN EndWithReset(r, run, errorToast, outcome = "invalid_key")
               ELSE AfterExtraction(r, [run EXCEPT !.allText = text,
                                                   !.totalTokens = PageTokens], <<>>)

\* handleCancel: the overlay with its Cancel button is rendered when viewMode
\* is "processing" and processingState is not null
handleCancel ==
    /\ UNCHANGED notPage
    /\ ~isLoadingKey
    /\ viewMode = "processing"
    /\ processingState # <<>>
    /\ singles' = [r \in SingleRuns |->
                     [singles[r] EXCEPT !.aborted = @ \/ r = abortController]]
    /\ pageToast' = << <<"info", "Processing cancelled">> >>
    /\ pageFiles' = <<>>
    /\ viewMode' = "upload"
    /\ singleResult' = <<>>
    /\ processingState' = <<>>
    /\ UNCHANGED <<uploaderFiles, capturedFile, showPreviewModal, pageApiKey,
                   showNoKeyDialog, requests, isLoadingKey, abortController>>

\* Whether the page renders the BatchProcessor
BatchProcessorRendered ==
    /\ ~isLoadingKey
    /\ viewMode = "batch-processing"
    /\ Len(pageFiles) > 1
    /\ HasApiKey(pageApiKey)

\* handleReset, called by the user: onClose of the preview, Start Over and
\* onComplete of the batch view
handleReset ==
    /\ UNCHANGED notPage
    /\ ~isLoadingKey
    /\ \/ viewMode = "single-preview" /\ singleResult # <<>>
       \/ BatchProcessorRendered
    /\ pageFiles' = <<>>
    /\ viewMode' = "upload"
    /\ singleResult' = <<>>
    /\ processingState' = <<>>
    /\ pageToast' = <<>>
    /\ UNCHANGED <<uploaderFiles, capturedFile, showPreviewModal, pageApiKey,
                   showNoKeyDialog, singles, requests, isLoadingKey, abortController>>

NextUpload ==
    \/ \E newFiles \in Drops : handleFiles(newFiles)
    \/ \E index \in 1..maxFiles : removeFile(index)
    \/ clearAll
    \/ \E file \in CameraKinds : handleCameraCapture(file)
    \/ handleConfirmCapture
    \/ handleRetakeCapture
    \/ handleClosePreview
    \/ handleExtractText
    \/ handleCancel
    \/ handleReset

\* The upload queue of a page whose key is loaded
InitUploadAlone ==
    InitUpload /\ BatchIdle /\ KeysIdle /\ ValidateIdle /\ ClientIdle /\ RetryIdle /\ PageReady

SpecUpload == InitUploadAlone /\ [][NextUpload]_vars

(***************************************************************************)
(* The page from its first render, with one or two files selected          *)
(***************************************************************************)
PageDrops == { <<Scan>>, <<Doc>>, <<Scan, Doc>> }

\* A drop or a pick that keeps the selection within MaxSelected files
SelectFiles(newFiles) ==
    /\ Len(uploaderFiles) + Len(newFiles) <= MaxSelected
    /\ Len(pageFiles) + Len(newFiles) <= MaxSelected
    /\ handleFiles(newFiles)

\* A photo taken while the selection is below MaxSelected files
TakePhoto(file) ==
    /\ Len(pageFiles) < MaxSelected
    /\ handleCameraCapture(file)

InitPage ==
    /\ pageApiKey = <<>>
    /\ showNoKeyDialog = FALSE
    /\ singleResult = <<>>
    /\ singles = [r \in SingleRuns |-> IdleSingle]
    /\ requests = {}
    /\ isLoadingKey = TRUE
    /\ abortController = 0
    /\ processingState = <<>>

NextPage ==
    \/ \E outcome \in {"error", "none", "key"} : loadApiKey(outcome)
    \/ setShowNoKeyDialog
    \/ \E newFiles \in PageDrops : SelectFiles(newFiles)
    \/ \E index \in 1..MaxSelected : removeFile(index)
    \/ clearAll
    \/ \E file \in CameraKinds : TakePhoto(file)
    \/ handleConfirmCapture
    \/ handleRetakeCapture
    \/ handleClosePreview
    \/ handleExtractText
    \/ \E r \in SingleRuns, n \in 0..MaxPages : pdfToImagesResolves(r, n)
    \/ \E r \in SingleRuns : pdfToImagesRejects(r)
    \/ \E r \in SingleRuns : fileToBase64Resolves(r)
    \/ \E r \in SingleRuns : fileToBase64Rejects(r)
    \/ \E r \in SingleRuns, outcome \in OcrOutcomes : extractTextReturns(r, outcome)
    \/ handleCancel
    \/ handleReset

InitPageAlone ==
    /\ InitUpload /\ InitPage
    /\ BatchIdle /\ KeysIdle /\ ValidateIdle /\ ClientIdle /\ RetryIdle

SpecPage == InitPageAlone /\ [][NextPage]_vars

\* C9: after any sequence of drops, picks, removals, clear-all and confirmed
\* camera captures, the page's files hold at most 10 files, each of which
\* passes validateFile.
C9_BatchLimit ==
    /\ Len(pageFiles) <= 10
    /\ \A j \in 1..Len(pageFiles) : validateFile(pageFiles[j]).valid

(***************************************************************************)
(* extractText: HTTP error responses (src/lib/deepseek-client.ts)          *)
(***************************************************************************)
\* A number as JavaScript holds it here: undefined, NaN or an integer
NoNumber == [defined |-> FALSE, nan |-> FALSE, n |-> 0]
NaN == [defined |-> TRUE, nan |-> TRUE, n |-> 0]
Num(n) == [defined |-> TRUE, nan |-> FALSE, n |-> n]

DigitChars == <<"0", "1", "2", "3", "4", "5", "6", "7", "8", "9">>
IsDigit(ch) == \E d \in 1..10 : DigitChars[d] = ch
DigitValue(ch) == (CHOOSE d \in 1..10 : DigitChars[d] = ch) - 1

RECURSIVE SkipSpaces(_)
SkipSpaces(q) == IF q # <<>> /\ Head(q) = " " THEN SkipSpaces(Tail(q)) ELSE q

\* The value of the leading digits of q, read after acc
RECURSIVE LeadingDigits(_, _)
LeadingDigits(q, acc) ==
    IF q # <<>> /\ IsDigit(Head(q))
    THEN LeadingDigits(Tail(q), 10 * acc + DigitValue(Head(q)))
    ELSE acc

\* parseInt(q, 10): leading white space, an optional sign, then digits up to
\* the first other character; NaN when no digit is there
ParseInt(q) ==
    LET t == SkipSpaces(q)
        signed == t # <<>> /\ Head(t) \in {"+", "-"}
        u == IF signed THEN Tail(t) ELSE t
    IN IF u = <<>> \/ ~IsDigit(Head(u)) THEN NaN
       ELSE IF signed /\ Head(t) = "-" THEN Num(0 - LeadingDigits(u, 0))
       ELSE Num(LeadingDigits(u, 0))

\* response.headers.get("Retry-After"): null when the header is absent
NoHeader == [present |-> FALSE, value |-> <<>>]
Header(q) == [present |-> TRUE, value |-> q]

\* What response.json() yields: a rejection (the body is not JSON), null, or
\* an object with error.message and message ("" where the field is absent)
BodyNotJson == [kind |-> "invalid", errorMessage |-> "", message |-> ""]
BodyNull == [kind |-> "null", errorMessage |-> "", message |-> ""]
BodyObject(em, m) == [kind |-> "object", errorMessage |-> em, message |-> m]

HttpResponse(st, b, h) == [status |-> st, body |-> b, retryAfter |-> h]

\* response.ok
ResponseOk(r) == r.status \in 200..299

OcrError(t, text, n, ra) ==
    [type |-> t, message |-> [text |-> text, n |-> n], retryAfter |-> ra]

\* handleErrorResponse(response): the body is parsed first, inside the try;
\* the switch on the status runs only when that succeeded
handleErrorResponse(r) ==
    IF r.body.kind # "object"
    THEN OcrError("unknown", "HTTP N error occurred", Num(r.status), NoNumber)
    ELSE LET errorMessage ==
                 IF r.body.errorMessage # "" THEN r.body.errorMessage
                 ELSE IF r.body.message # "" THEN r.body.message
                 ELSE "Unknown error"
             retryAfter ==
                 ParseInt(IF r.retryAfter.present /\ r.retryAfter.value # <<>>
                          THEN r.retryAfter.value
                          ELSE <<"5">>)
         IN CASE r.status \in {401, 403} ->
                   OcrError("invalid_key",
                            "Invalid API key. Please update your key in Settings.",
                            NoNumber, NoNumber)
              [] r.status = 429 ->
                   OcrError("rate_limit", "Rate limit reached. Please wait N seconds.",
                            retryAfter, retryAfter)
              [] r.status \in {500, 502, 503} ->
                   OcrError("server", "DeepInfra server error. Please try again later.",
                            NoNumber, NoNumber)
              [] OTHER ->
                   OcrError("unknown", errorMessage, NoNumber, NoNumber)

\* The responses extractText is given here
ErrorStatuses == {400, 401, 402, 403, 404, 408, 413, 429, 500, 501, 502, 503, 504}

ErrorBodies ==
    {BodyNotJson, BodyNull, BodyObject("", ""), BodyObject("quota exceeded", ""),
     BodyObject("", "bad request")}

\* Absent, empty, delta-seconds, delta-seconds with a fraction, an HTTP date
RetryAfterHeaders ==
    {NoHeader, Header(<<>>), Header(<<"3", "0">>), Header(<<"0">>),
     Header(<<"1", ".", "5">>), Header(<<"W", "e", "d", ",", " ", "2", "1">>)}

ErrorResponses ==
    {HttpResponse(st, b, h) : st \in ErrorStatuses, b \in ErrorBodies, h \in RetryAfterHeaders}

InitClient ==
    /\ response \in ErrorResponses
    /\ ocrError = <<>>

\* extractText, lines 85-88: if (!response.ok) return { error: await
\* handleErrorResponse(response) }
ExtractTextFails ==
    /\ ocrError = <<>>
    /\ ~ResponseOk(response)
    /\ ocrError' = handleErrorResponse(response)
    /\ UNCHANGED response
    /\ UNCHANGED notClient

NextClient == ExtractTextFails

InitClientAlone ==
    InitClient /\ BatchIdle /\ KeysIdle /\ UploadIdle /\ ValidateIdle /\ RetryIdle /\ PageIdle

SpecClient == InitClientAlone /\ [][NextClient]_vars

\* The Retry-After headers that carry a whole number of seconds
DeltaSeconds(h) == h.present /\ h.value # <<>> /\ \A j \in 1..Len(h.value) : IsDigit(h.value[j])

\* The number a string of decimal digits denotes
RECURSIVE Decimal(_)
Decimal(q) ==
    IF q = <<>> THEN 0
    ELSE 10 * Decimal(SubSeq(q, 1, Len(q) - 1)) + DigitValue(q[Len(q)])

FnValues == {"v1", "v2"}
FnErrors == {"E1", "E2"}

DEFAULT_INITIAL_DELAY == 1000
InitialDelays == {DEFAULT_INITIAL_DELAY, 250}

CallEvent(outcome, x) == [ev |-> "call", outcome |-> outcome, x |-> x, delay |-> 0]
WaitEvent(delay) == [ev |-> "wait", outcome |-> "", x |-> "", delay |-> delay]

\* The loop test, letting one more round through
LoopContinuesOnceMore(i, maxRetries) == i <= maxRetries

\* for (let i = 0; i < maxRetries; i++)
LoopContinues(i, maxRetries) == i < maxRetries

\* A delay that grows by initialDelay each time
BackoffDelayLinear(initialDelay, i) == initialDelay * (i + 1)

\* initialDelay * Math.pow(2, i)
BackoffDelay(initialDelay, i) == initialDelay * 2^i

\* One call retryWithBackoff(fn, maxRetries, initialDelay), about to enter
\* the loop; lastError is declared and not assigned
InitRetry ==
    \E m \in 0..MaxRetries, d \in InitialDelays :
        retry = [maxRetries |-> m, initialDelay |-> d, i |-> 0, pc |-> "enter",
                 lastError |-> Undefined, result |-> Undefined, thrown |-> Undefined,
                 log |-> <<>>]

\* The loop test at index i: fn is called, or the loop is left and
\* lastError thrown
LoopAt(rt, i) ==
    IF LoopContinues(i, rt.maxRetries)
    THEN [rt EXCEPT !.i = i, !.pc = "fn"]
    ELSE [rt EXCEPT !.i = i, !.pc = "thrown", !.thrown = rt.lastError]

\* retryWithBackoff is called: the first loop test
EnterLoop ==
    /\ retry.pc = "enter"
    /\ retry' = LoopAt(retry, 0)
    /\ UNCHANGED notRetry

\* return await fn(): fn resolves and its value is returned
FnResolves(v) ==
    /\ retry.pc = "fn"
    /\ retry' = [retry EXCEPT !.pc = "returned", !.result = v,
                               !.log = Append(@, CallEvent("resolved", v))]
    /\ UNCHANGED notRetry

\* fn rejects: the catch block keeps the error and either starts the timer
\* or goes to the next loop test at once
FnRejects(e) ==
    /\ retry.pc = "fn"
    /\ LET failed == [retry EXCEPT !.lastError = e,
                                   !.log = Append(@, CallEvent("rejected", e))]
       IN IF retry.i < retry.maxRetries - 1
          THEN retry' = [failed EXCEPT
                            !.pc = "timer",
                            !.log = Append(@, WaitEvent(BackoffDelay(retry.initialDelay,
                                                                     retry.i)))]
          ELSE retry' = LoopAt(failed, retry.i + 1)
    /\ UNCHANGED notRetry

\* The timer fires: i++ and the next loop test
TimerFires ==
    /\ retry.pc = "timer"
    /\ retry' = LoopAt(retry, retry.i + 1)
    /\ UNCHANGED notRetry

NextRetry ==
    \/ EnterLoop
    \/ \E v \in FnValues : FnResolves(v)
    \/ \E e \in FnErrors : FnRejects(e)
    \/ TimerFires

InitRetryAlone ==
    InitRetry /\ BatchIdle /\ KeysIdle /\ UploadIdle /\ ValidateIdle /\ ClientIdle /\ PageIdle

SpecRetry == InitRetryAlone /\ [][NextRetry]_vars

\* The calls of fn so far, and for a position of the log the number of calls
\* up to and including it
FnCalls == SelectSeq(retry.log, LAMBDA e : e.ev = "call")
CallsUpTo(j) == Len(SelectSeq(SubSeq(retry.log, 1, j), LAMBDA e : e.ev = "call"))

\* C12: retryWithBackoff calls fn at most maxRetries times; the first call
\* that resolves is the last call and its value is returned; when maxRetries
\* calls (one at least) have all rejected, the error of the last is thrown.
C12_RetryCalls ==
    /\ Len(FnCalls) <= retry.maxRetries
    /\ \A j \in 1..(Len(FnCalls) - 1) : FnCalls[j].outcome = "rejected"
    /\ (FnCalls # <<>> /\ FnCalls[Len(FnCalls)].outcome = "resolved")
          => retry.pc = "returned" /\ retry.result = FnCalls[Len(FnCalls)].x
    /\ retry.pc = "returned"
          => FnCalls # <<>> /\ FnCalls[Len(FnCalls)].outcome = "resolved"
    /\ (retry.pc = "thrown" /\ retry.maxRetries >= 1)
          => /\ Len(FnCalls) = retry.maxRetries
             /\ \A j \in 1..Len(FnCalls) : FnCalls[j].outcome = "rejected"
             /\ retry.thrown = FnCalls[Len(FnCalls)].x

\* Three calls rejected with E1, E1, E2 under maxRetries = 3: E2 is thrown.
C12_Witness ==
    /\ retry.maxRetries = 3
    /\ retry.pc = "thrown"
    /\ Len(FnCalls) = 3
    /\ FnCalls[1].x = "E1" /\ FnCalls[2].x = "E1" /\ FnCalls[3].x = "E2"
    /\ retry.thrown = "E2"

\* C13: after the i-th rejected call (i from 0) with i < maxRetries - 1 the
\* function waits initialDelay * 2^i and only then calls fn again; waits
\* occur nowhere else, and none follows the last rejected call.
C13_ExponentialBackoff ==
    \A j \in 1..Len(retry.log) :
        LET e == retry.log[j]
            i == CallsUpTo(j) - 1
        IN /\ e.ev = "wait"
                => /\ j > 1 /\ retry.log[j - 1].ev = "call"
                   /\ retry.log[j - 1].outcome = "rejected"
                   /\ i < retry.maxRetries - 1
                   /\ e.delay = retry.initialDelay * 2^i
           /\ (e.ev = "call" /\ e.outcome = "rejected" /\ i < retry.maxRetries - 1)
                => j < Len(retry.log) /\ retry.log[j + 1].ev = "wait"
           /\ (e.ev = "call" /\ e.outcome = "rejected" /\ i >= retry.maxRetries - 1)
                => j = Len(retry.log) /\ retry.pc = "thrown"
           /\ (e.ev = "call" /\ j > 1) => retry.log[j - 1].ev = "wait"

\* The default delay and four rejected calls: waits of 1000, 2000 and 4000,
\* and none after the fourth rejection.
C13_Witness ==
    /\ retry.initialDelay = 1000
    /\ retry.maxRetries = 4
    /\ retry.pc = "thrown"
    /\ Len(retry.log) = 7
    /\ retry.log[2].delay = 1000 /\ retry.log[4].delay = 2000 /\ retry.log[6].delay = 4000
    /\ retry.log[7].ev = "call"

(***************************************************************************)
(* A failing file in processFiles                                          *)
(***************************************************************************)
\* C15: a failing file does not abort the batch.  In every invocation of
\* processFiles a file whose iteration has ended is success or error; a file
\* whose conversion threw or whose request returned an error is error with a
\* message; the invocation returns only after every later file was set to
\* processing and got its outcome, and the component then shows these
\* outcomes.
C15_FailureDoesNotAbort ==
    \A run \in ProcessFilesRuns :
        /\ \A i \in FileIndices :
              Positions(run, "settled", i) # {} =>
                 LET res == run.updatedResults[i + 1] IN
                 /\ res.status \in {"success", "error"}
                 /\ ~files[i + 1].readable
                       => res.status = "error" /\ res.error = MsgReadFailed
                 /\ Positions(run, "request", i) = {} => res.status = "error"
                 /\ res.status = "error" => res.error \in {MsgRateLimit, MsgReadFailed}
                 /\ (res.status = "error" /\ run.pc = "done")
                       => \A j \in FileIndices :
                             j > i => /\ Positions(run, "processing", j) # {}
                                      /\ Positions(run, "settled", j) # {}
        /\ run.pc = "done" =>
              /\ Positions(run, "settled", Len(files) - 1) # {}
              /\ results = run.updatedResults

\* processFiles has returned for three files: the first request was refused
\* with a rate-limit error, the second file could not be read, the third
\* file was extracted.
C15_Witness ==
    /\ finished.kind = "processFiles"
    /\ Len(files) = 3
    /\ results[1].status = "error" /\ results[1].error = MsgRateLimit
    /\ results[2].status = "error" /\ results[2].error = MsgReadFailed
    /\ results[3].status = "success" /\ results[3].extractedText = TextOf(2)

(***************************************************************************)
(* retryFailed, invoked in a completed batch                               *)
(***************************************************************************)
\* What processFiles leaves for file j (1-based) when its request succeeded
\* (ok) or not
CompletedResult(f, j, ok) ==
    IF ok /\ f.readable
    THEN [filename |-> f.name, status |-> "success", extractedText |-> TextOf(j - 1),
          error |-> Undefined, tokensUsed |-> TokensOf(j - 1)]
    ELSE [filename |-> f.name, status |-> "error", extractedText |-> <<>>,
          error |-> (IF f.readable THEN MsgRateLimit ELSE MsgReadFailed),
          tokensUsed |-> NoTokens]

\* The results processFiles can have left for a list of files
CompletedResults(fs) ==
    { [j \in 1..Len(fs) |-> CompletedResult(fs[j], j, j \in S)] : S \in SUBSET (1..Len(fs)) }

\* The component after processFiles has returned; invocations are counted
\* from here.
InitRetryFailed ==
    /\ files \in FileLists
    /\ results \in CompletedResults(files)
    /\ isProcessing = FALSE
    /\ currentIndex = Len(files)
    /\ runs = [r \in Runs |-> IdleRun]
    /\ started = 0
    /\ finished = IdleRun
    /\ zip = NoArchive
    /\ toast = NoToast

\* retryFailed invoked in a completed batch, also when no file is in error
retryFailedCalled(r) ==
    /\ allComplete
    /\ retryFailedFrom(r)

NextRetryFailed ==
    \/ \E r \in Runs : retryFailedCalled(r)
    \/ \E r \in Runs : FileRead(r)
    \/ \E r \in Runs : FileReadFails(r)
    \/ \E r \in Runs, resp \in Responses : ExtractReturns(r, resp)
    \/ \E r \in Runs : DelayElapsed(r)

InitRetryFailedAlone ==
    InitRetryFailed /\ KeysIdle /\ UploadIdle /\ ValidateIdle /\ OthersIdle

SpecRetryFailed == InitRetryFailedAlone /\ [][NextRetryFailed]_vars

RetryFailedRuns ==
    {runs[r] : r \in {q \in Runs : runs[q].kind = "retryFailed"}} \cup
    (IF finished.kind = "retryFailed" THEN {finished} ELSE {})

\* The three fields of a result the claim is about
Outcome(res) ==
    [status |-> res.status, extractedText |-> res.extractedText,
     tokensUsed |-> res.tokensUsed]

ErrorAt(res) == {j \in 0..(Len(res) - 1) : res[j + 1].status = "error"}
SuccessAt(res) == {j \in 0..(Len(res) - 1) : res[j + 1].status = "success"}

\* The files an invocation has set to processing so far, in that order
ProcessedSoFar(run) ==
    LET marks == SelectSeq(run.log, LAMBDA e : e.ev = "processing")
    IN [p \in 1..Len(marks) |-> marks[p].arg]

\* Every invocation of retryFailed works on the files in error when it was
\* clicked, in ascending order, and holds for every file that was success
\* then the outcome it found.
C16_Invocation ==
    \A run \in RetryFailedRuns :
        /\ {run.todo[p] : p \in 1..Len(run.todo)} = ErrorAt(run.atClick)
        /\ \A p, q \in 1..Len(run.todo) : p < q => run.todo[p] < run.todo[q]
        /\ ProcessedSoFar(run) = SubSeq(run.todo, 1, run.k)
        /\ run.pc = "done" => run.k = Len(run.todo)
        /\ \A p \in RequestPositions(run) : run.log[p].arg \in ErrorAt(run.atClick)
        /\ \A j \in SuccessAt(run.atClick) :
              Outcome(run.updatedResults[j + 1]) = Outcome(run.atClick[j + 1])

\* A step of an invocation of retryFailed leaves the entry of a file that was
\* success at its click as it is or writes the outcome found at the click;
\* an invocation starts from the results shown when clicked; and a call with
\* no file in error and no invocation in flight changes no component state
\* and starts nothing.
C16_Step ==
    /\ \A r \in Runs :
          (runs[r].kind = "retryFailed" /\ runs'[r] # runs[r]) =>
              \A j \in SuccessAt(runs[r].atClick) :
                  \/ results'[j + 1] = results[j + 1]
                  \/ Outcome(results'[j + 1]) = Outcome(runs[r].atClick[j + 1])
    /\ \A r \in Runs :
          (runs[r].kind = "none" /\ runs'[r].kind = "retryFailed") =>
              /\ runs'[r].atClick = results
              /\ \A j \in SuccessAt(results) : results'[j + 1] = results[j + 1]
    /\ (allComplete /\ errorCount = 0 /\ \A r \in Runs : runs[r].kind = "none") =>
          UNCHANGED <<files, results, isProcessing, currentIndex, runs, started, zip>>

\* C16: retryFailed re-processes exactly the files whose status is error
\* when it is clicked, in ascending index order; it leaves status,
\* extractedText and tokensUsed of every file that is success at that moment
\* unchanged; called when no file is in error it changes no state and issues
\* no request.
C16_RetryFailed == [] C16_Invocation /\ [][C16_Step]_vars

\* An invocation clicked with the first of three files success and the two
\* others in error has returned: the first file is as it was, the third is
\* now success.
C16_Witness ==
    /\ finished.kind = "retryFailed"
    /\ Len(files) = 3
    /\ finished.todo = <<1, 2>>
    /\ finished.atClick[1].status = "success"
    /\ results[1] = finished.atClick[1]
    /\ results[3].status = "success"

\* retryFailed was called with every file success: only the toast appeared.
C16_WitnessNothingFailed ==
    /\ errorCount = 0
    /\ started = 0
    /\ toast = <<"info", "No failed files to retry">>

(***************************************************************************)
(* Properties of the page's single-file flow                               *)
(***************************************************************************)
\* The OCR output held by a text: its pieces that are not headings
OcrPieces(text) == {p \in 1..Len(text) : text[p][1] = "text"}

\* C14: whenever viewMode is "single-preview", singleResult is non-null, one
\* file is selected, an extractText call was made for it, and singleResult
\* holds the file name of that file and text extracted from it.
C14_PreviewShowsSelectedFile ==
    viewMode = "single-preview" =>
        /\ singleResult # <<>>
        /\ Len(pageFiles) = 1
        /\ \E q \in requests : q.file = pageFiles[1].name
        /\ singleResult[1].fileName = pageFiles[1].name
        /\ \A p \in OcrPieces(singleResult[1].text) :
              singleResult[1].text[p][2] = pageFiles[1].name

\* C17: cancellation is final: an invocation of processSingleFile whose
\* controller handleCancel has aborted never sets singleResult and never
\* switches viewMode to "single-preview".
C17_CancelIsFinal ==
    \A r \in SingleRuns : ~(singles[r].aborted /\ singles[r].shown)

\* No request, no invocation and no batch view without a key
C18_NoRequestWithoutKey ==
    /\ \A q \in requests : q.apiKey # <<>> /\ q.apiKey # <<"">>
    /\ \A r \in SingleRuns : singles[r].pc # "idle" => singles[r].apiKey # <<>>
    /\ pageApiKey = <<>> =>
          /\ viewMode = "upload"
          /\ requests = {}
          /\ \A r \in SingleRuns : singles[r].pc = "idle"
    /\ viewMode = "batch-processing" => Len(pageFiles) >= 2 /\ pageApiKey # <<>>
    /\ BatchProcessorRendered => Len(pageFiles) >= 2 /\ pageApiKey # <<>>

\* What a call of handleExtractText does, by key and number of files
C18_ExtractStep ==
    handleExtractText =>
        /\ pageApiKey = <<>> =>
              /\ showNoKeyDialog'
              /\ UNCHANGED <<viewMode, singles, requests>>
        /\ (pageApiKey # <<>> /\ Len(pageFiles) = 0) =>
              UNCHANGED <<viewMode, singles, requests, showNoKeyDialog>>
        /\ (pageApiKey # <<>> /\ Len(pageFiles) = 1) =>
              /\ viewMode' = "processing"
              /\ \E r \in SingleRuns :
                    /\ singles[r].pc = "idle"
                    /\ singles'[r].pc \in {"pdfToImages", "fileToBase64"}
                    /\ singles'[r].file = pageFiles[1]
                    /\ singles'[r].apiKey = pageApiKey
                    /\ \A q \in SingleRuns \ {r} : singles'[q] = singles[q]
        /\ (pageApiKey # <<>> /\ Len(pageFiles) >= 2) =>
              /\ viewMode' = "batch-processing"
              /\ UNCHANGED <<singles, requests, pageFiles>>

\* C18: no OCR request is issued without a loaded API key.  handleExtractText
\* with apiKey null opens the no-key dialog and starts nothing; with no file
\* it starts nothing; with one file it starts single-file processing; the
\* BatchProcessor, which gets the key as a prop, is rendered only with two
\* files or more and a key.
C18_KeyRequired ==
    [] C18_NoRequestWithoutKey
       /\ [][C18_ExtractStep]_<<viewMode, singles, requests, showNoKeyDialog, pageFiles>>

\* handleExtractText was called with a file selected and no key: the dialog
\* is open, nothing was started.
C18_Witness ==
    /\ ~isLoadingKey
    /\ pageApiKey = <<>>
    /\ Len(pageFiles) = 1
    /\ showNoKeyDialog
    /\ viewMode = "upload"
    /\ requests = {}
    /\ pageToast = << <<"error", MsgAddKey>> >>

====
